---- MODULE Spec2Model ----
(***************************************************************************)
(* A model of the streaming indicators RunningMovingAverage,               *)
(* AverageTrueRange<MA> and NormalizedAverageTrueRange<MA> of ta-rs.       *)
(*                                                                         *)
(* f64 values are modelled as exact rationals <<n, d>> in lowest terms     *)
(* with d > 0; NaN, infinities and rounding are outside the model, so the  *)
(* inputs never make a divisor zero.                                       *)
(***************************************************************************)
EXTENDS Integers, Sequences, FiniteSets, TLC

(* ------------------------------------------------------------------ *)
(* Bounds of the model                                                 *)
(* ------------------------------------------------------------------ *)

\* largest period passed to RunningMovingAverage::new (0 and 1 are rejected)
MaxPeriod == 4

\* largest period, beside that of the tests, passed to the other constructors
MaxAtrPeriod == 3

\* number of next/reset calls made on the stand-alone RunningMovingAverage
MaxCalls == 6

\* number of next/reset calls made on the composed indicators
MaxTicks == 5

\* number of next/reset calls made, in all, on two instances side by side
MaxPairCalls == 4

\* largest period of the two instances side by side
MaxPairPeriod == 2

(* ------------------------------------------------------------------ *)
(* f64 arithmetic, as exact rationals                                  *)
(* ------------------------------------------------------------------ *)

RECURSIVE GCD(_, _)
GCD(a, b) == IF b = 0 THEN a ELSE GCD(b, a % b)

IAbs(n) == IF n < 0 THEN -n ELSE n

Norm(n, d) ==
    LET s == IF d < 0 THEN -1 ELSE 1
        g == GCD(IAbs(n), IAbs(d))
    IN  <<(s * n) \div g, (s * d) \div g>>

\* `n as f64`
F(n) == <<n, 1>>

\* the operations divide by common factors before they multiply, which keeps
\* the integers small
FAdd(a, b) ==
    LET g == GCD(a[2], b[2])
    IN  Norm(a[1] * (b[2] \div g) + b[1] * (a[2] \div g), (a[2] \div g) * b[2])

FSub(a, b) == FAdd(a, <<-b[1], b[2]>>)

FMul(a, b) ==
    IF a[1] = 0 \/ b[1] = 0
    THEN <<0, 1>>
    ELSE LET g1 == GCD(IAbs(a[1]), b[2])
             g2 == GCD(IAbs(b[1]), a[2])
         IN  <<(a[1] \div g1) * (b[1] \div g2), (a[2] \div g2) * (b[2] \div g1)>>

\* the divisor is never zero in the model
FDiv(a, b) == FMul(a, IF b[1] < 0 THEN <<-b[2], -b[1]>> ELSE <<b[2], b[1]>>)

FLess(a, b) == a[1] * b[2] < b[1] * a[2]

\* f64::abs
FAbs(a) == <<IAbs(a[1]), a[2]>>

\* f64::max
FMax(a, b) == IF FLess(a, b) THEN b ELSE a

(* ------------------------------------------------------------------ *)
(* Result<T>                                                           *)
(* ------------------------------------------------------------------ *)

\* no constructor has been called yet
NoInstance == [tag |-> "None"]

Ok(v) == [tag |-> "Ok", val |-> v]

Err(e) == [tag |-> "Err", err |-> e]

InvalidParameter == "InvalidParameter"

(* ------------------------------------------------------------------ *)
(* RunningMovingAverage                                                *)
(* ------------------------------------------------------------------ *)

\* RunningMovingAverage::new with the range pattern written 0..=0
RMA_new_accepts_one(period) ==
    IF period = 0
    THEN Err(InvalidParameter)
    ELSE Ok([period |-> period, count |-> 0, prev |-> F(0), sum |-> F(0)])

\* RunningMovingAverage::new with the range pattern written 0..=2
RMA_new_rejects_two(period) ==
    IF period \in 0..2
    THEN Err(InvalidParameter)
    ELSE Ok([period |-> period, count |-> 0, prev |-> F(0), sum |-> F(0)])

\* RunningMovingAverage::new
RMA_new(period) ==
    IF period \in 0..1
    THEN Err(InvalidParameter)
    ELSE Ok([period |-> period, count |-> 0, prev |-> F(0), sum |-> F(0)])

\* Period::period returning the number of values seen
RMA_period_returns_count(self) == self.count

\* Period::period
RMA_period(self) == self.period

\* Next<f64>::next with the second arm dividing by period - 1
RMA_next_off_by_one(self, input) ==
    LET count == self.count + 1
        res == IF count < self.period THEN F(0)
               ELSE IF count = self.period
                    THEN FDiv(FAdd(self.sum, input), F(self.period - 1))
                    ELSE FDiv(FAdd(FMul(self.prev, F(self.period - 1)), input),
                              F(self.period))
    IN  [self |-> [period |-> self.period,
                   count  |-> count,
                   prev   |-> res,
                   sum    |-> IF count < self.period
                              THEN FAdd(self.sum, input) ELSE self.sum],
         out  |-> res]

\* Next<f64>::next with a count that stops at period
RMA_next_saturating(self, input) ==
    LET count == IF self.count < self.period THEN self.count + 1 ELSE self.count
        res == IF count < self.period THEN F(0)
               ELSE IF self.count < self.period
                    THEN FDiv(FAdd(self.sum, input), F(self.period))
                    ELSE FDiv(FAdd(FMul(self.prev, F(self.period - 1)), input),
                              F(self.period))
    IN  [self |-> [period |-> self.period,
                   count  |-> count,
                   prev   |-> res,
                   sum    |-> IF count < self.period
                              THEN FAdd(self.sum, input) ELSE self.sum],
         out  |-> res]

\* Next<f64>::next that keeps adding to sum in the second arm
RMA_next_sums_at_period(self, input) ==
    LET count == self.count + 1
        res == IF count < self.period THEN F(0)
               ELSE IF count = self.period
                    THEN FDiv(FAdd(self.sum, input), F(self.period))
                    ELSE FDiv(FAdd(FMul(self.prev, F(self.period - 1)), input),
                              F(self.period))
    IN  [self |-> [period |-> self.period,
                   count  |-> count,
                   prev   |-> res,
                   sum    |-> IF count <= self.period
                              THEN FAdd(self.sum, input) ELSE self.sum],
         out  |-> res]

\* Next<f64>::next whose first arm returns self.prev instead of 0.0
RMA_next_warm_up_returns_prev(self, input) ==
    LET count == self.count + 1
        res == IF count < self.period THEN self.prev
               ELSE IF count = self.period
                    THEN FDiv(FAdd(self.sum, input), F(self.period))
                    ELSE FDiv(FAdd(FMul(self.prev, F(self.period - 1)), input),
                              F(self.period))
    IN  [self |-> [period |-> self.period,
                   count  |-> count,
                   prev   |-> res,
                   sum    |-> IF count < self.period
                              THEN FAdd(self.sum, input) ELSE self.sum],
         out  |-> res]

\* Next<f64>::next: the new state and the returned value
RMA_next(self, input) ==
    LET count == self.count + 1
        res == IF count < self.period THEN F(0)
               ELSE IF count = self.period
                    THEN FDiv(FAdd(self.sum, input), F(self.period))
                    ELSE FDiv(FAdd(FMul(self.prev, F(self.period - 1)), input),
                              F(self.period))
    IN  [self |-> [period |-> self.period,
                   count  |-> count,
                   prev   |-> res,
                   sum    |-> IF count < self.period
                              THEN FAdd(self.sum, input) ELSE self.sum],
         out  |-> res]

\* Next<&T>::next passing the bar's high
RMA_next_bar_uses_high(self, bar) == RMA_next(self, bar.high)

\* Next<&T>::next
RMA_next_bar(self, bar) == RMA_next(self, bar.close)

\* Reset::reset that forgets to clear the warm-up sum
RMA_reset_keeps_sum(self) == [self EXCEPT !.count = 0]

\* Reset::reset
RMA_reset(self) == [self EXCEPT !.count = 0, !.sum = F(0)]

(* ------------------------------------------------------------------ *)
(* Option<f64>                                                         *)
(* ------------------------------------------------------------------ *)

None == <<>>

Some(x) == <<x>>

(* ------------------------------------------------------------------ *)
(* The moving-average strategies MA of AverageTrueRange<MA>            *)
(* ------------------------------------------------------------------ *)

Strategies == {"Simple", "Exponential", "Running"}

\* ExponentialMovingAverage::new
EMA_new(period) ==
    IF period = 0
    THEN Err(InvalidParameter)
    ELSE Ok([period |-> period, k |-> FDiv(F(2), F(period + 1)), current |-> None])

\* ExponentialMovingAverage::next: the first input is taken as it is
EMA_next(self, input) ==
    LET res == IF self.current = None
               THEN input
               ELSE FAdd(FMul(self.k, input),
                         FMul(FSub(F(1), self.k), self.current[1]))
    IN  [self |-> [self EXCEPT !.current = Some(res)], out |-> res]

\* ExponentialMovingAverage::reset
EMA_reset(self) == [self EXCEPT !.current = None]

\* SimpleMovingAverage::new
SMA_new(period) ==
    IF period = 0
    THEN Err(InvalidParameter)
    ELSE Ok([period |-> period, queue |-> <<>>, sum |-> F(0)])

\* SimpleMovingAverage::next: a queue of the last period inputs and their
\* sum; 0 until the queue is full
SMA_next(self, input) ==
    LET full  == Len(self.queue) = self.period
        queue == Append(IF full THEN Tail(self.queue) ELSE self.queue, input)
        sum   == FAdd(IF full THEN FSub(self.sum, Head(self.queue)) ELSE self.sum,
                      input)
        res   == IF Len(queue) = self.period THEN FDiv(sum, F(self.period)) ELSE F(0)
    IN  [self |-> [self EXCEPT !.queue = queue, !.sum = sum], out |-> res]

\* SimpleMovingAverage::reset
SMA_reset(self) == [self EXCEPT !.queue = <<>>, !.sum = F(0)]

\* NewWithPeriod::with_period of the strategy
MA_with_period(kind, period) ==
    LET r == CASE kind = "Running"     -> RMA_new(period)
               [] kind = "Exponential" -> EMA_new(period)
               [] kind = "Simple"      -> SMA_new(period)
    IN  IF r.tag = "Ok" THEN Ok([kind |-> kind, st |-> r.val]) ELSE r

\* Period::period of the strategy
MA_period(self) ==
    CASE self.kind = "Running"     -> RMA_period(self.st)
      [] self.kind = "Exponential" -> self.st.period
      [] self.kind = "Simple"      -> self.st.period

\* Next<f64>::next of the strategy
MA_next(self, input) ==
    LET r == CASE self.kind = "Running"     -> RMA_next(self.st, input)
               [] self.kind = "Exponential" -> EMA_next(self.st, input)
               [] self.kind = "Simple"      -> SMA_next(self.st, input)
    IN  [self |-> [self EXCEPT !.st = r.self], out |-> r.out]

\* Reset::reset of the strategy
MA_reset(self) ==
    [self EXCEPT !.st = CASE self.kind = "Running"     -> RMA_reset(self.st)
                          [] self.kind = "Exponential" -> EMA_reset(self.st)
                          [] self.kind = "Simple"      -> SMA_reset(self.st)]

(* ------------------------------------------------------------------ *)
(* TrueRange                                                           *)
(* ------------------------------------------------------------------ *)

\* a bar, as seen through High, Low and Close
Bar(high, low, close) == [high |-> high, low |-> low, close |-> close]

\* TrueRange::new
TR_new == [prev_close |-> None]

\* Next<&T>::next of TrueRange
TR_next_bar(self, bar) ==
    LET dist == IF self.prev_close = None
                THEN FSub(bar.high, bar.low)
                ELSE FMax(FMax(FSub(bar.high, bar.low),
                               FAbs(FSub(bar.high, self.prev_close[1]))),
                          FAbs(FSub(bar.low, self.prev_close[1])))
    IN  [self |-> [self EXCEPT !.prev_close = Some(bar.close)], out |-> dist]

\* Next<f64>::next of TrueRange: the value is a true range already
TR_next_scalar(self, input) == [self |-> self, out |-> input]

\* Reset::reset of TrueRange
TR_reset(self) == [self EXCEPT !.prev_close = None]

(* ------------------------------------------------------------------ *)
(* AverageTrueRange<MA>                                                *)
(* ------------------------------------------------------------------ *)

\* AverageTrueRange::new
ATR_new(kind, period) ==
    LET r == MA_with_period(kind, period)
    IN  IF r.tag = "Ok" THEN Ok([true_range |-> TR_new, ma |-> r.val]) ELSE r

\* Period::period
ATR_period(self) == MA_period(self.ma)

\* Next<f64>::next returning the true range without smoothing it
ATR_next_scalar_unsmoothed(self, input) ==
    LET t == TR_next_scalar(self.true_range, input)
    IN  [self |-> [self EXCEPT !.true_range = t.self], out |-> t.out]

\* Next<f64>::next
ATR_next_scalar(self, input) ==
    LET t == TR_next_scalar(self.true_range, input)
        m == MA_next(self.ma, t.out)
    IN  [self |-> [true_range |-> t.self, ma |-> m.self], out |-> m.out]

\* Next<&T>::next smoothing high - low instead of the true range
ATR_next_bar_high_low(self, bar) ==
    LET t == TR_next_bar(self.true_range, bar)
        m == MA_next(self.ma, FSub(bar.high, bar.low))
    IN  [self |-> [true_range |-> t.self, ma |-> m.self], out |-> m.out]

\* Next<&T>::next
ATR_next_bar(self, bar) ==
    LET t == TR_next_bar(self.true_range, bar)
        m == MA_next(self.ma, t.out)
    IN  [self |-> [true_range |-> t.self, ma |-> m.self], out |-> m.out]

\* the fields of all instances kept in one place, written by every &mut self
Store_shared(instances, i, self) == [j \in DOMAIN instances |-> Ok(self)]

\* a method taking &mut self writes the fields of the instance it is called
\* on: each instance owns its true_range and ma
Store(instances, i, self) == [instances EXCEPT ![i] = Ok(self)]

\* a panic of unwrap()
Panic == [tag |-> "Panic"]

\* Result::unwrap, on the Result of a constructor
Unwrap(r) == IF r.tag = "Ok" THEN r ELSE Panic

AtrDefaultPeriod == 14

\* Default::default written Self::new(1).unwrap()
ATR_default_period_one(kind) == Unwrap(ATR_new(kind, 1))

\* Default::default
ATR_default(kind) == Unwrap(ATR_new(kind, AtrDefaultPeriod))

\* Reset::reset that resets the true range only
ATR_reset_keeps_ma(self) == [self EXCEPT !.true_range = TR_reset(self.true_range)]

\* Reset::reset
ATR_reset(self) ==
    [true_range |-> TR_reset(self.true_range), ma |-> MA_reset(self.ma)]

(* ------------------------------------------------------------------ *)
(* NormalizedAverageTrueRange<MA>                                      *)
(* ------------------------------------------------------------------ *)

Hundred == 100

\* NormalizedAverageTrueRange::new
NATR_new(kind, period) ==
    LET r == ATR_new(kind, period)
    IN  IF r.tag = "Ok" THEN Ok([atr |-> r.val]) ELSE r

\* Period::period
NATR_period(self) == ATR_period(self.atr)

\* Next<f64>::next
NATR_next_scalar(self, input) ==
    LET a == ATR_next_scalar(self.atr, input)
    IN  [self |-> [atr |-> a.self], out |-> FDiv(FMul(a.out, F(Hundred)), input)]

\* Next<&T>::next dividing by the bar's high
NATR_next_bar_by_high(self, bar) ==
    LET a == ATR_next_bar(self.atr, bar)
    IN  [self |-> [atr |-> a.self], out |-> FDiv(FMul(a.out, F(Hundred)), bar.high)]

\* Next<&T>::next
NATR_next_bar(self, bar) ==
    LET a == ATR_next_bar(self.atr, bar)
    IN  [self |-> [atr |-> a.self], out |-> FDiv(FMul(a.out, F(Hundred)), bar.close)]

\* Reset::reset
NATR_reset(self) == [atr |-> ATR_reset(self.atr)]

NatrDefaultPeriod == 14

\* Default::default
NATR_default(kind) == Unwrap(NATR_new(kind, NatrDefaultPeriod))

(* ------------------------------------------------------------------ *)
(* State                                                               *)
(* ------------------------------------------------------------------ *)

VARIABLES
    rma,        \* Result<RunningMovingAverage> of the last new(), or NoInstance
    rmaArg,     \* the period passed to that new()
    rmaIns,     \* inputs fed to rma since construction or the last reset
    rmaOuts,    \* values returned for them
    rmaWasReset,\* reset() has been called on rma since construction
    rmaCalls,   \* number of next/reset calls made on rma
    rmaLastBar, \* Some(bar) when the last call on rma was next(&bar), else None
    rmaScalar,  \* a second RunningMovingAverage, fed bar.close() as f64
    rmaScalarOut, \* the value it returned last
    rmaAlt,     \* a third one, getting the calls of rma, with another history
                \* before each reset: another value left in prev
    rmaAltOut,  \* the value it returned last
    rmaAltPrevDiffers, \* prev of rma and rmaAlt differed after the last reset
    strat,      \* the strategy MA the composed indicators are built with
    arg,        \* the period passed to their constructors
    natr,       \* Result<NormalizedAverageTrueRange<MA>>, fed the bars
    atr,        \* Result<AverageTrueRange<MA>>, fed the same bars
    ma,         \* Result<MA>, fed the true range of the bars
    atrS,       \* Result<AverageTrueRange<MA>>, fed the true ranges as f64
    natrS,      \* Result<NormalizedAverageTrueRange<MA>>, fed them as f64
    out,        \* the value each of the five returned on the last tick
    bars,       \* bars fed since construction or the last reset
    wasReset,   \* reset() has been called since construction
    preBars,    \* number of bars fed before the last reset
    periods,    \* Some(what period() returned on ma, atr and natr) when the
                \* last calls were period(), else None
    ticks,      \* number of next/reset calls made on each
    pair,       \* two instances: pair[1] a Result<AverageTrueRange<Running>>,
                \* pair[2] a Result<AverageTrueRange<MA>>
    pairKind,   \* the strategy MA of pair[2]
    pairArg,    \* the periods the two were constructed with
    pairOps,    \* the calls made on each, in order
    pairOut,    \* the value each returned last
    pairCalls   \* number of calls made on the two

rmaVars == <<rma, rmaArg, rmaIns, rmaOuts, rmaWasReset, rmaCalls, rmaLastBar,
             rmaScalar, rmaScalarOut, rmaAlt, rmaAltOut, rmaAltPrevDiffers>>

atrVars == <<strat, arg, natr, atr, ma, atrS, natrS, out, bars, wasReset, preBars,
             periods, ticks>>

pairVars == <<pair, pairKind, pairArg, pairOps, pairOut, pairCalls>>

vars == <<rma, rmaArg, rmaIns, rmaOuts, rmaWasReset, rmaCalls, rmaLastBar,
          rmaScalar, rmaScalarOut, rmaAlt, rmaAltOut, rmaAltPrevDiffers,
          strat, arg, natr, atr, ma, atrS, natrS, out, bars, wasReset, preBars,
          periods, ticks, pair, pairKind, pairArg, pairOps, pairOut, pairCalls>>

\* the scalar inputs fed to the stand-alone RunningMovingAverage
RmaInputs == {F(1), F(4), F(7)}

\* the bars fed to it: for each close the bar of test_next_with_bars, whose
\* other fields are 0, and one with a high and a low around the close
RmaBars ==
    { Bar(F(0), F(0), c) : c \in RmaInputs }
        \cup { Bar(FAdd(c, F(2)), FSub(c, F(1)), c) : c \in RmaInputs }

\* the values reset() can find in prev: 0.0, and any input x, returned as
\* the period-th output once x was fed period times
RmaPrevAtReset == {F(0)} \cup RmaInputs

(* ------------------------------------------------------------------ *)
(* The stand-alone RunningMovingAverage                                *)
(* ------------------------------------------------------------------ *)

RmaInit ==
    /\ rma = NoInstance
    /\ rmaArg = 0
    /\ rmaIns = <<>>
    /\ rmaOuts = <<>>
    /\ rmaWasReset = FALSE
    /\ rmaCalls = 0
    /\ rmaLastBar = None
    /\ rmaScalar = NoInstance
    /\ rmaScalarOut = F(0)
    /\ rmaAlt = NoInstance
    /\ rmaAltOut = F(0)
    /\ rmaAltPrevDiffers = FALSE

AtrInit ==
    /\ strat = "Exponential"
    /\ arg = 0
    /\ natr = NoInstance
    /\ atr = NoInstance
    /\ ma = NoInstance
    /\ atrS = NoInstance
    /\ natrS = NoInstance
    /\ out = [natr |-> F(0), atr |-> F(0), ma |-> F(0), atrS |-> F(0), natrS |-> F(0)]
    /\ bars = <<>>
    /\ wasReset = FALSE
    /\ preBars = 0
    /\ periods = None
    /\ ticks = 0

PairInit ==
    /\ pair = [i \in 1..2 |-> NoInstance]
    /\ pairKind = "Running"
    /\ pairArg = [i \in 1..2 |-> 0]
    /\ pairOps = [i \in 1..2 |-> <<>>]
    /\ pairOut = [i \in 1..2 |-> F(0)]
    /\ pairCalls = 0

Init == RmaInit /\ AtrInit /\ PairInit

\* let rma = RunningMovingAverage::new(period), and the same for the other
\* two; a failed call leaves no instance
RmaNew(period) ==
    /\ rma.tag # "Ok"
    /\ rma' = RMA_new(period)
    /\ rmaScalar' = RMA_new(period)
    /\ rmaAlt' = RMA_new(period)
    /\ rmaArg' = period
    /\ UNCHANGED <<rmaIns, rmaOuts, rmaWasReset, rmaCalls, rmaLastBar,
                   rmaScalarOut, rmaAltOut, rmaAltPrevDiffers>>
    /\ UNCHANGED <<atrVars, pairVars>>

\* next(input) on the three
RmaNext(input) ==
    /\ rma.tag = "Ok"
    /\ rmaCalls < MaxCalls
    /\ rmaIns' = Append(rmaIns, input)
    /\ rmaCalls' = rmaCalls + 1
    /\ rmaLastBar' = None
    /\ LET r == RMA_next(rma.val, input)
           t == RMA_next(rmaScalar.val, input)
           u == RMA_next(rmaAlt.val, input)
       IN  /\ rma' = Ok(r.self)
           /\ rmaOuts' = Append(rmaOuts, r.out)
           /\ rmaScalar' = Ok(t.self)
           /\ rmaScalarOut' = t.out
           /\ rmaAlt' = Ok(u.self)
           /\ rmaAltOut' = u.out
    /\ UNCHANGED <<rmaArg, rmaWasReset, rmaAltPrevDiffers>>
    /\ UNCHANGED <<atrVars, pairVars>>

\* rma.next(&bar) and rmaAlt.next(&bar), with rmaScalar.next(bar.close())
RmaNextBar(bar) ==
    /\ rma.tag = "Ok"
    /\ rmaCalls < MaxCalls
    /\ rmaIns' = Append(rmaIns, bar.close)
    /\ rmaCalls' = rmaCalls + 1
    /\ rmaLastBar' = Some(bar)
    /\ LET r == RMA_next_bar(rma.val, bar)
           t == RMA_next(rmaScalar.val, bar.close)
           u == RMA_next_bar(rmaAlt.val, bar)
       IN  /\ rma' = Ok(r.self)
           /\ rmaOuts' = Append(rmaOuts, r.out)
           /\ rmaScalar' = Ok(t.self)
           /\ rmaScalarOut' = t.out
           /\ rmaAlt' = Ok(u.self)
           /\ rmaAltOut' = u.out
    /\ UNCHANGED <<rmaArg, rmaWasReset, rmaAltPrevDiffers>>
    /\ UNCHANGED <<atrVars, pairVars>>

\* reset() on the three; rmaAlt stands for an instance that was fed other
\* inputs before, so that reset() finds another value in its prev
RmaReset ==
    /\ rma.tag = "Ok"
    /\ rmaCalls < MaxCalls
    /\ rma' = Ok(RMA_reset(rma.val))
    /\ rmaScalar' = Ok(RMA_reset(rmaScalar.val))
    /\ \E prev \in RmaPrevAtReset :
          /\ rmaAlt' = Ok(RMA_reset([rmaAlt.val EXCEPT !.prev = prev]))
          /\ rmaAltPrevDiffers' = (prev # rma.val.prev)
    /\ rmaIns' = <<>>
    /\ rmaOuts' = <<>>
    /\ rmaWasReset' = TRUE
    /\ rmaCalls' = rmaCalls + 1
    /\ rmaLastBar' = None
    /\ UNCHANGED <<rmaArg, rmaScalarOut, rmaAltOut>>
    /\ UNCHANGED <<atrVars, pairVars>>

RmaStep ==
    \/ \E period \in 0..MaxPeriod : RmaNew(period)
    \/ \E input \in RmaInputs : RmaNext(input)
    \/ \E bar \in RmaBars : RmaNextBar(bar)
    \/ RmaReset

SpecRMA == Init /\ [][RmaStep]_vars

(* ------------------------------------------------------------------ *)
(* The composed indicators, run side by side on the same bars          *)
(* ------------------------------------------------------------------ *)

\* the period of NATR's test_reset
ResetTestPeriod == 9

Periods == (0..MaxAtrPeriod) \cup {ResetTestPeriod}

\* the bars of the tests: (high, low, close)
Bars == { Bar(F(10), <<15, 2>>, F(9)),
          Bar(F(11), F(9), <<19, 2>>),
          Bar(F(9), F(5), F(8)),
          Bar(F(60), F(15), F(51)) }

\* the true range of the k-th bar of bs, from the bars alone
TrueRangeOf(bs, k) ==
    LET hl == FSub(bs[k].high, bs[k].low)
    IN  IF k = 1 THEN hl
        ELSE LET pc == bs[k - 1].close
                 hc == FAbs(FSub(bs[k].high, pc))
                 lc == FAbs(FSub(bs[k].low, pc))
             IN  IF FLess(hl, hc) \/ FLess(hl, lc)
                 THEN (IF FLess(hc, lc) THEN lc ELSE hc)
                 ELSE hl

\* the five constructors, called with the same strategy and period
New(kind, period) ==
    /\ natr.tag # "Ok"
    /\ strat' = kind
    /\ arg' = period
    /\ natr' = NATR_new(kind, period)
    /\ atr' = ATR_new(kind, period)
    /\ ma' = MA_with_period(kind, period)
    /\ atrS' = ATR_new(kind, period)
    /\ natrS' = NATR_new(kind, period)
    /\ UNCHANGED <<out, bars, wasReset, preBars, periods, ticks>>
    /\ UNCHANGED <<rmaVars, pairVars>>

\* one tick: natr.next(&bar), atr.next(&bar), and next(tr) on the other three
\* with tr the true range of the bar
Tick(bar) ==
    /\ natr.tag = "Ok"
    /\ ticks < MaxTicks
    /\ LET bs == Append(bars, bar)
           tr == TrueRangeOf(bs, Len(bs))
           n  == NATR_next_bar(natr.val, bar)
           a  == ATR_next_bar(atr.val, bar)
           m  == MA_next(ma.val, tr)
           as == ATR_next_scalar(atrS.val, tr)
           ns == NATR_next_scalar(natrS.val, tr)
       IN  /\ natr' = Ok(n.self)
           /\ atr' = Ok(a.self)
           /\ ma' = Ok(m.self)
           /\ atrS' = Ok(as.self)
           /\ natrS' = Ok(ns.self)
           /\ out' = [natr |-> n.out, atr |-> a.out, ma |-> m.out,
                      atrS |-> as.out, natrS |-> ns.out]
           /\ bars' = bs
    /\ ticks' = ticks + 1
    /\ periods' = None
    /\ UNCHANGED <<strat, arg, wasReset, preBars>>
    /\ UNCHANGED <<rmaVars, pairVars>>

\* reset() on each of the five
Reset ==
    /\ natr.tag = "Ok"
    /\ ticks < MaxTicks
    /\ natr' = Ok(NATR_reset(natr.val))
    /\ atr' = Ok(ATR_reset(atr.val))
    /\ ma' = Ok(MA_reset(ma.val))
    /\ atrS' = Ok(ATR_reset(atrS.val))
    /\ natrS' = Ok(NATR_reset(natrS.val))
    /\ bars' = <<>>
    /\ wasReset' = TRUE
    /\ preBars' = preBars + Len(bars)
    /\ ticks' = ticks + 1
    /\ periods' = None
    /\ UNCHANGED <<strat, arg, out>>
    /\ UNCHANGED <<rmaVars, pairVars>>

Next ==
    \/ \E kind \in Strategies, period \in Periods : New(kind, period)
    \/ \E bar \in Bars : Tick(bar)
    \/ Reset

Spec == Init /\ [][Next]_vars

\* period() on the strategy, the AverageTrueRange and the
\* NormalizedAverageTrueRange: &self, nothing is written
PeriodCall ==
    /\ natr.tag = "Ok"
    /\ periods' = Some([ma   |-> MA_period(ma.val),
                        atr  |-> ATR_period(atr.val),
                        natr |-> NATR_period(natr.val)])
    /\ UNCHANGED <<strat, arg, natr, atr, ma, atrS, natrS, out, bars, wasReset,
                   preBars, ticks>>
    /\ UNCHANGED <<rmaVars, pairVars>>

NextWithPeriod ==
    \/ \E kind \in Strategies, period \in Periods : New(kind, period)
    \/ \E bar \in Bars : Tick(bar)
    \/ Reset
    \/ PeriodCall

\* the composed indicators, with period() called between the other calls
SpecPeriod == Init /\ [][NextWithPeriod]_vars

\* the five built by Default::default (the strategy by with_period(14))
Default(kind) ==
    /\ natr.tag # "Ok"
    /\ strat' = kind
    /\ arg' = NatrDefaultPeriod
    /\ natr' = NATR_default(kind)
    /\ atr' = ATR_default(kind)
    /\ ma' = MA_with_period(kind, AtrDefaultPeriod)
    /\ atrS' = ATR_default(kind)
    /\ natrS' = NATR_default(kind)
    /\ UNCHANGED <<out, bars, wasReset, preBars, periods, ticks>>
    /\ UNCHANGED <<rmaVars, pairVars>>

NextOfDefault ==
    \/ \E kind \in Strategies : Default(kind)
    \/ \E bar \in Bars : Tick(bar)
    \/ Reset

\* the composed indicators, built by Default::default
SpecDefault == Init /\ [][NextOfDefault]_vars

(* ------------------------------------------------------------------ *)
(* Properties of the stand-alone RunningMovingAverage                  *)
(* ------------------------------------------------------------------ *)

RECURSIVE SumFirst(_, _)
\* s[1] + ... + s[n], added left to right starting from 0.0
SumFirst(s, n) == IF n = 0 THEN F(0) ELSE FAdd(SumFirst(s, n - 1), s[n])

\* C1: on a freshly constructed RunningMovingAverage of period p >= 2 the
\* k-th call of next returns 0 for k < p, the sum of the first p inputs
\* divided by p for k = p, and (previous output * (p-1) + input) / p for k > p.
C1_WarmUpThenRecurrence ==
    (rma.tag = "Ok" /\ ~rmaWasReset) =>
        /\ rmaArg >= 2
        /\ \A k \in 1..Len(rmaOuts) :
              rmaOuts[k] =
                 IF k < rmaArg THEN F(0)
                 ELSE IF k = rmaArg
                      THEN FDiv(SumFirst(rmaIns, rmaArg), F(rmaArg))
                      ELSE FDiv(FAdd(FMul(rmaOuts[k - 1], F(rmaArg - 1)), rmaIns[k]),
                                F(rmaArg))

\* the documented run: period 3, inputs 4, 4, 7, 1 give 0, 0, 5, 11/3
C1_Witness ==
    /\ rma.tag = "Ok"
    /\ ~rmaWasReset
    /\ rmaArg = 3
    /\ rmaIns = <<F(4), F(4), F(7), F(1)>>
    /\ rmaOuts = <<F(0), F(0), F(5), <<11, 3>>>>

\* C3: right after reset() every field of the RunningMovingAverage equals the
\* field of RunningMovingAverage::new(period) for the same period.
C3_ResetEqualsNew ==
    (rma.tag = "Ok" /\ rmaWasReset /\ rmaIns = <<>>) => rma = RMA_new(rmaArg)

(* ------------------------------------------------------------------ *)
(* Properties of the composed indicators                               *)
(* ------------------------------------------------------------------ *)

RECURSIVE MaAfter(_, _, _)
\* the strategy self after the true ranges of the first k bars of bs
MaAfter(self, bs, k) ==
    IF k = 0 THEN self ELSE MA_next(MaAfter(self, bs, k - 1), TrueRangeOf(bs, k)).self

RECURSIVE AtrAfter(_, _, _)
\* the AverageTrueRange self after the first k bars of bs
AtrAfter(self, bs, k) ==
    IF k = 0 THEN self ELSE ATR_next_bar(AtrAfter(self, bs, k - 1), bs[k]).self

RECURSIVE NatrAfter(_, _, _)
\* the NormalizedAverageTrueRange self after the first k bars of bs
NatrAfter(self, bs, k) ==
    IF k = 0 THEN self ELSE NATR_next_bar(NatrAfter(self, bs, k - 1), bs[k]).self

\* what newly constructed instances return on the last bar of bs when fed bs
FreshOut(kind, period, bs) ==
    LET k == Len(bs)
    IN  [ma   |-> MA_next(MaAfter(MA_with_period(kind, period).val, bs, k - 1),
                          TrueRangeOf(bs, k)).out,
         atr  |-> ATR_next_bar(AtrAfter(ATR_new(kind, period).val, bs, k - 1),
                               bs[k]).out,
         natr |-> NATR_next_bar(NatrAfter(NATR_new(kind, period).val, bs, k - 1),
                                bs[k]).out]

\* C2: after next calls and a reset(), a strategy (RunningMovingAverage among
\* them), an AverageTrueRange and a NormalizedAverageTrueRange return on every
\* input what a newly constructed instance of the same period returns when fed
\* the inputs that followed the reset.
C2_ResetThenSameAsFresh ==
    (natr.tag = "Ok" /\ wasReset /\ Len(bars) > 0) =>
        LET fresh == FreshOut(strat, arg, bars)
        IN  /\ out.ma = fresh.ma
            /\ out.atr = fresh.atr
            /\ out.natr = fresh.natr

\* a RunningMovingAverage past its warm-up for the second time
C2_Witness ==
    /\ natr.tag = "Ok"
    /\ strat = "Running"
    /\ wasReset
    /\ preBars >= arg
    /\ Len(bars) >= arg
    /\ out.ma # F(0)

C5_NatrIsAtrTimes100OverClose ==
    (natr.tag = "Ok" /\ Len(bars) > 0) =>
        /\ out.natr = FDiv(FMul(out.atr, F(100)), bars[Len(bars)].close)
        /\ out.natrS = FDiv(FMul(out.atrS, F(100)), TrueRangeOf(bars, Len(bars)))

\* Simple, period 2, second bar: ATR 9/4, NATR (9/4) * 100 / 9.5
C5_Witness ==
    /\ natr.tag = "Ok"
    /\ strat = "Simple"
    /\ arg = 2
    /\ bars = <<Bar(F(10), <<15, 2>>, F(9)), Bar(F(11), F(9), <<19, 2>>)>>
    /\ out.atr = <<9, 4>>
    /\ out.natr = <<450, 19>>

\* C6: AverageTrueRange<S>::next(&bar) returns what a stand-alone S of the same
\* period returns when fed the true range of the bar: high - low for the first
\* bar since construction or reset, else the largest of high - low,
\* |high - previous close| and |low - previous close|.
C6_AtrIsStrategyOfTrueRange ==
    (atr.tag = "Ok" /\ Len(bars) > 0) => out.atr = out.ma

\* Exponential, period 3, the three bars of test_next: the third output is 3.375
C6_Witness ==
    /\ atr.tag = "Ok"
    /\ strat = "Exponential"
    /\ arg = 3
    /\ ~wasReset
    /\ bars = <<Bar(F(10), <<15, 2>>, F(9)), Bar(F(11), F(9), <<19, 2>>),
                Bar(F(9), F(5), F(8))>>
    /\ out.atr = <<27, 8>>

RECURSIVE SumTrueRange(_, _)
\* the sum of the true ranges of the first k bars of bs
SumTrueRange(bs, k) ==
    IF k = 0 THEN F(0) ELSE FAdd(SumTrueRange(bs, k - 1), TrueRangeOf(bs, k))

\* C8: with Running and period p, a new AverageTrueRange returns on the k-th
\* bar, 1 <= k <= p, the mean of the first k true ranges, and
\* NormalizedAverageTrueRange that mean times 100 divided by the bar's close.
C8_RunningAtrIsMeanDuringWarmUp ==
    (natr.tag = "Ok" /\ strat = "Running" /\ ~wasReset /\ Len(bars) \in 1..arg) =>
        LET k    == Len(bars)
            mean == FDiv(SumTrueRange(bars, k), F(k))
        IN  /\ out.atr = mean
            /\ out.natr = FDiv(FMul(mean, F(100)), bars[k].close)

\* C9: NormalizedAverageTrueRange<RunningMovingAverage> of period 9, after bars
\* and a reset(), returns (high - low) * 100 / close on the next bar.
C9_RunningNatrAfterReset ==
    (natr.tag = "Ok" /\ strat = "Running" /\ arg = ResetTestPeriod
        /\ wasReset /\ preBars > 0 /\ Len(bars) = 1) =>
        out.natr = FDiv(FMul(FSub(bars[1].high, bars[1].low), F(100)), bars[1].close)

\* C10: with Exponential, the first bar after AverageTrueRange::reset() returns
\* its high - low, whatever bars came before the reset.
C10_ExponentialAtrAfterReset ==
    (atr.tag = "Ok" /\ strat = "Exponential" /\ wasReset /\ Len(bars) = 1) =>
        out.atr = FSub(bars[1].high, bars[1].low)

\* test_reset: period 9, two bars, reset(), then (60, 15, 51) gives 45
C10_Witness ==
    /\ atr.tag = "Ok"
    /\ strat = "Exponential"
    /\ arg = ResetTestPeriod
    /\ wasReset
    /\ preBars = 2
    /\ bars = <<Bar(F(60), F(15), F(51))>>
    /\ out.atr = F(45)

(* ------------------------------------------------------------------ *)
(* More properties of the stand-alone RunningMovingAverage             *)
(* ------------------------------------------------------------------ *)

RmaPhase(self) ==
    IF self.count = 0 THEN 0 ELSE IF self.count < self.period THEN 1 ELSE 2

\* a call of either overload of next on rma
RmaNextCall ==
    \/ \E input \in RmaInputs : RmaNext(input)
    \/ \E bar \in RmaBars : RmaNextBar(bar)

\* the state r of an instance is not terminal: next accepts every input and
\* leads to a state with one more call counted, in the same or a later phase
RmaNextIsTotal(r) ==
    (r.tag = "Ok") =>
        \A input \in RmaInputs :
            LET n == RMA_next(r.val, input)
            IN  /\ n.self.count = r.val.count + 1
                /\ RmaPhase(n.self) >= RmaPhase(r.val)

\* C13: every next call adds exactly 1 to count and never moves the instance to
\* an earlier phase; a step that moves it to an earlier phase is a reset and
\* ends in the constructed phase; no state is terminal, next being possible
\* in each.
C13_PhasesMoveForward ==
    [][ /\ RmaNextCall =>
             /\ rma'.val.count = rma.val.count + 1
             /\ RmaPhase(rma'.val) >= RmaPhase(rma.val)
        /\ (rma.tag = "Ok" /\ rma'.tag = "Ok"
              /\ RmaPhase(rma'.val) < RmaPhase(rma.val)) =>
             /\ RmaReset
             /\ RmaPhase(rma'.val) = 0
        /\ RmaNextIsTotal(rma)
        /\ RmaNextIsTotal(rma')
      ]_vars

\* steady again after a reset
C13_Witness ==
    /\ rma.tag = "Ok"
    /\ rmaWasReset
    /\ RmaPhase(rma.val) = 2
    /\ rma.val.count > rma.val.period

\* C14: sum is the sum of the first min(count, period - 1) inputs received
\* since construction or the last reset (count being their number), so a next
\* call made with count >= period - 1 leaves sum as it is.
C14_SumIsWarmUpSum ==
    (rma.tag = "Ok") =>
        LET n == IF rma.val.count < rma.val.period - 1
                 THEN rma.val.count ELSE rma.val.period - 1
        IN  /\ rma.val.count = Len(rmaIns)
            /\ rma.val.sum = SumFirst(rmaIns, n)

\* two calls past the warm-up of period 3: sum is still 4 + 7
C14_Witness ==
    /\ rma.tag = "Ok"
    /\ rma.val.period = 3
    /\ rmaIns = <<F(4), F(7), F(1), F(1)>>
    /\ rma.val.sum = F(11)

\* C15: next(&bar) returns what next(bar.close()) returns and leaves the same
\* state, whatever the bar's other fields are.
C15_BarOverloadIsCloseOnly ==
    (rma.tag = "Ok" /\ Len(rmaOuts) > 0) =>
        /\ rma = rmaScalar
        /\ rmaOuts[Len(rmaOuts)] = rmaScalarOut

\* a bar with high 6, low 3, close 4 ends the warm-up
C15_Witness ==
    /\ rma.tag = "Ok"
    /\ rmaLastBar = Some(Bar(F(6), F(3), F(4)))
    /\ Len(rmaIns) = rmaArg
    /\ rmaOuts[Len(rmaOuts)] # F(0)

\* C17: two instances of the same period that differ only in prev when reset()
\* returns (count = 0, sum = 0) return the same values on every input sequence.
C17_PrevAtResetIsNeverRead ==
    (rma.tag = "Ok" /\ rmaWasReset) =>
        /\ rmaAlt.val.count = rma.val.count
        /\ rmaAlt.val.sum = rma.val.sum
        /\ Len(rmaOuts) > 0 => /\ rmaAltOut = rmaOuts[Len(rmaOuts)]
                               /\ rmaAlt = rma

\* prev differed at the reset, and the recurrence, which reads prev, has run
C17_Witness ==
    /\ rma.tag = "Ok"
    /\ rmaWasReset
    /\ rmaAltPrevDiffers
    /\ Len(rmaIns) > rmaArg
    /\ rmaAltOut # F(0)

(* ------------------------------------------------------------------ *)
(* Two instances side by side                                          *)
(* ------------------------------------------------------------------ *)

PairBars == { Bar(F(10), <<15, 2>>, F(9)), Bar(F(9), F(5), F(8)) }

\* the strategy of pair[i]
PairKindOf(i) == IF i = 1 THEN "Running" ELSE pairKind

\* let pair[1] = AverageTrueRange::<RunningMovingAverage>::new(p1) and
\* pair[2] = AverageTrueRange::<MA>::new(p2), both valid
PairNew(kind, p1, p2) ==
    /\ pair[1].tag # "Ok"
    /\ pair' = [i \in 1..2 |->
                  ATR_new(IF i = 1 THEN "Running" ELSE kind, IF i = 1 THEN p1 ELSE p2)]
    /\ pairKind' = kind
    /\ pairArg' = [i \in 1..2 |-> IF i = 1 THEN p1 ELSE p2]
    /\ UNCHANGED <<pairOps, pairOut, pairCalls>>
    /\ UNCHANGED <<rmaVars, atrVars>>

\* pair[i].next(&bar)
PairNext(i, bar) ==
    /\ pair[i].tag = "Ok"
    /\ pairCalls < MaxPairCalls
    /\ LET r == ATR_next_bar(pair[i].val, bar)
       IN  /\ pair' = Store(pair, i, r.self)
           /\ pairOut' = [pairOut EXCEPT ![i] = r.out]
    /\ pairOps' = [pairOps EXCEPT ![i] = Append(@, [op |-> "next", bar |-> bar])]
    /\ pairCalls' = pairCalls + 1
    /\ UNCHANGED <<pairKind, pairArg>>
    /\ UNCHANGED <<rmaVars, atrVars>>

\* pair[i].reset()
PairReset(i) ==
    /\ pair[i].tag = "Ok"
    /\ pairCalls < MaxPairCalls
    /\ pair' = Store(pair, i, ATR_reset(pair[i].val))
    /\ pairOps' = [pairOps EXCEPT ![i] = Append(@, [op |-> "reset"])]
    /\ pairCalls' = pairCalls + 1
    /\ UNCHANGED <<pairKind, pairArg, pairOut>>
    /\ UNCHANGED <<rmaVars, atrVars>>

PairStep ==
    \/ \E kind \in Strategies, p1 \in 2..MaxPairPeriod, p2 \in 2..MaxPairPeriod :
          PairNew(kind, p1, p2)
    \/ \E i \in 1..2, bar \in PairBars : PairNext(i, bar)
    \/ \E i \in 1..2 : PairReset(i)

\* two instances, called in any interleaving
SpecPair == Init /\ [][PairStep]_vars

RECURSIVE AloneRun(_, _, _, _)
\* an AverageTrueRange<kind> of the given period run alone on the first k calls
\* of ops: its state and the value it returned last
AloneRun(kind, period, ops, k) ==
    IF k = 0
    THEN [self |-> ATR_new(kind, period).val, out |-> F(0)]
    ELSE LET before == AloneRun(kind, period, ops, k - 1)
         IN  IF ops[k].op = "reset"
             THEN [self |-> ATR_reset(before.self), out |-> before.out]
             ELSE ATR_next_bar(before.self, ops[k].bar)

C11_PeriodIsConstructorPeriod ==
    [][ PeriodCall =>
          /\ periods' = Some([ma |-> arg, atr |-> arg, natr |-> arg])
          /\ UNCHANGED <<natr, atr, ma>>
      ]_vars

\* period() called on Running instances after bars, a reset and more bars
C11_Witness ==
    /\ natr.tag = "Ok"
    /\ strat = "Running"
    /\ wasReset
    /\ preBars > 0
    /\ Len(bars) >= 2
    /\ periods = Some([ma |-> arg, atr |-> arg, natr |-> arg])

\* C16: Default::default of AverageTrueRange and NormalizedAverageTrueRange
\* does not panic with any of the three strategies and gives an instance with
\* period() = 14, in the state new(14) gives.
C16_DefaultIsNew14 ==
    (natr.tag # "None") =>
        /\ natr.tag = "Ok" /\ NATR_period(natr.val) = 14
        /\ atr.tag = "Ok" /\ ATR_period(atr.val) = 14
        /\ ticks = 0 => /\ natr = NATR_new(strat, 14)
                        /\ atr = ATR_new(strat, 14)

\* NormalizedAverageTrueRange::<RunningMovingAverage>::default(), as in
\* test_default
C16_Witness ==
    /\ strat = "Running"
    /\ ticks = 0
    /\ natr.tag = "Ok"
    /\ natr.val.atr.ma.st.period = 14
    /\ atr.tag = "Ok"

====
